---------------------------- MODULE Spec2Model ----------------------------
(***************************************************************************)
(* Model of egress-probe: a three-phase (DNS -> TCP -> TLS) connectivity   *)
(* pipeline with sequential name resolution, a parallel TCP/TLS fan-out    *)
(* joined by a WaitGroup, and an allow/deny expectation evaluator.         *)
(*                                                                         *)
(* Go strings are modelled as sequences of one-character strings, so that  *)
(* strings.Contains, strings.HasPrefix, concatenation and slicing are      *)
(* computed rather than assumed.                                           *)
(***************************************************************************)
EXTENDS Integers, Sequences, FiniteSets, TLC

(***************************************************************************)
(* Bounds of the model.                                                    *)
(***************************************************************************)
\* largest number of configured targets explored
MaxTargets == 2
\* largest elapsed time (in clock ticks) a probe can report
MaxElapsed == 1

(***************************************************************************)
(* String literals of the program.                                         *)
(***************************************************************************)
SkippedDNSFailed == <<"s", "k", "i", "p", "p", "e", "d", " ", "(", "D", "N", "S", " ", "f", "a", "i", "l", "e", "d", ")">>
SkippedTCPFailed == <<"s", "k", "i", "p", "p", "e", "d", " ", "(", "T", "C", "P", " ", "f", "a", "i", "l", "e", "d", ")">>
LiteralSuffix == <<" ", "(", "l", "i", "t", "e", "r", "a", "l", ")">>
Connected == <<"c", "o", "n", "n", "e", "c", "t", "e", "d">>
NoSuchHost == <<"n", "o", " ", "s", "u", "c", "h", " ", "h", "o", "s", "t">>
IOTimeout == <<"i", "/", "o", " ", "t", "i", "m", "e", "o", "u", "t">>
DeadlineExceeded == <<"d", "e", "a", "d", "l", "i", "n", "e", " ", "e", "x", "c", "e", "e", "d", "e", "d">>
ConnectionRefused == <<"c", "o", "n", "n", "e", "c", "t", "i", "o", "n", " ", "r", "e", "f", "u", "s", "e", "d">>
ConnectionReset == <<"c", "o", "n", "n", "e", "c", "t", "i", "o", "n", " ", "r", "e", "s", "e", "t">>
Certificate == <<"c", "e", "r", "t", "i", "f", "i", "c", "a", "t", "e">>
UnknownAuthority == <<"u", "n", "k", "n", "o", "w", "n", " ", "a", "u", "t", "h", "o", "r", "i", "t", "y">>
Expired == <<"e", "x", "p", "i", "r", "e", "d">>
HandshakeFailure == <<"h", "a", "n", "d", "s", "h", "a", "k", "e", " ", "f", "a", "i", "l", "u", "r", "e">>
NXDOMAIN == <<"N", "X", "D", "O", "M", "A", "I", "N">>
TimeoutCat == <<"t", "i", "m", "e", "o", "u", "t">>
CertUnknownAuthority == <<"c", "e", "r", "t", ":", " ", "u", "n", "k", "n", "o", "w", "n", " ", "a", "u", "t", "h", "o", "r", "i", "t", "y">>
CertExpired == <<"c", "e", "r", "t", ":", " ", "e", "x", "p", "i", "r", "e", "d">>
CertError == <<"c", "e", "r", "t", " ", "e", "r", "r", "o", "r">>
TLSHandshakeFailure == <<"T", "L", "S", " ", "h", "a", "n", "d", "s", "h", "a", "k", "e", " ", "f", "a", "i", "l", "u", "r", "e">>
ColonSpace == <<":", " ">>
Dot == <<".">>
WarmupName == <<"k", "u", "b", "e", "r", "n", "e", "t", "e", "s", ".", "d", "e", "f", "a", "u", "l", "t", ".", "s", "v", "c", ".", "c", "l", "u", "s", "t", "e", "r", ".", "l", "o", "c", "a", "l", ".">>

(***************************************************************************)
(* The environment: hosts the operator can configure and what the network  *)
(* can answer.                                                             *)
(***************************************************************************)
\* a target host that is a literal IPv4 address
HostIP == <<"1", ".", "1", ".", "1", ".", "1">>
\* a target host that needs a name-resolution query
HostName == <<"a", ".", "i", "o">>
\* raw error of a failed lookup
ErrDNS == <<"l", "o", "o", "k", "u", "p", " ", "a", ".", "i", "o", ".", ":", " ", "n", "o", " ", "s", "u", "c", "h", " ", "h", "o", "s", "t">>
\* raw error of a failed dial
ErrTCP == <<"d", "i", "a", "l", " ", "t", "c", "p", ":", " ", "i", "/", "o", " ", "t", "i", "m", "e", "o", "u", "t">>
\* raw error of a failed handshake (SNI filtered)
ErrTLS == <<"E", "O", "F">>
\* strings.Join of the resolved addresses
AddrList == <<"9", ".", "9", ".", "9", ".", "9">>
\* negotiated version and cipher suite
TLSDetail == <<"T", "L", "S", " ", "1", ".", "3", ",", " ", "T", "L", "S", "_", "A", "E", "S", "_", "1", "2", "8", "_", "G", "C", "M", "_", "S", "H", "A", "2", "5", "6">>

\* what LookupIP can answer: the resolved addresses, or an error
DNSReplies == { [ok |-> TRUE,  err |-> <<>>,   val |-> AddrList],
                [ok |-> FALSE, err |-> ErrDNS, val |-> <<>>] }
\* what DialTimeout can answer: a connection, or an error
TCPReplies == { [ok |-> TRUE,  err |-> <<>>,   val |-> <<>>],
                [ok |-> FALSE, err |-> ErrTCP, val |-> <<>>] }
\* what tls.DialWithDialer can answer: a connection state, or an error
TLSReplies == { [ok |-> TRUE,  err |-> <<>>,   val |-> TLSDetail],
                [ok |-> FALSE, err |-> ErrTLS, val |-> <<>>] }
\* elapsed times time.Since can report
ElapsedVals == 0..MaxElapsed
\* hosts an operator can configure
Hosts == {HostIP, HostName}
\* values of the TIMEOUT environment variable: unset, a number of
\* seconds, and values parseConfig rejects
TimeoutEnvs == { <<>>, <<"2">>, <<"0">>, <<"x">> }

(***************************************************************************)
(* Program constants.                                                      *)
(***************************************************************************)
defaultPort == 443
\* case "http": inferredPort = 80
httpPort == 80
\* case "https": inferredPort = 443
httpsPort == 443
\* the largest port parseTarget accepts
maxPort == 65535
\* seconds
defaultTimeout == 5
\* every value above it is treated alike by the program; values are
\* computed up to it
AtoiSat == 1000000
MaxInt64Digits == <<"9","2","2","3","3","7","2","0","3","6","8","5","4","7","7","5","8","0","7">>
MinInt64Digits == <<"9","2","2","3","3","7","2","0","3","6","8","5","4","7","7","5","8","0","8">>

(***************************************************************************)
(* Go string functions, on sequences of characters.                        *)
(***************************************************************************)
\* strings.Contains(s, sub)
Contains(s, sub) ==
    \E i \in 0..(Len(s) - Len(sub)) : SubSeq(s, i + 1, i + Len(sub)) = sub

\* strings.HasPrefix(s, p)
HasPrefix(s, p) == Len(s) >= Len(p) /\ SubSeq(s, 1, Len(p)) = p

\* strings.HasSuffix(s, p)
HasSuffix(s, p) == Len(s) >= Len(p) /\ SubSeq(s, Len(s) - Len(p) + 1, Len(s)) = p

\* variant: the first occurrence instead of the last
LastIndexAsFirst(s, sub) ==
    LET hits == { i \in 0..(Len(s) - Len(sub)) : SubSeq(s, i + 1, i + Len(sub)) = sub }
    IN  IF hits = {} THEN -1 ELSE CHOOSE i \in hits : \A j \in hits : i <= j

\* strings.LastIndex(s, sub), 0-based, -1 when absent
LastIndex(s, sub) ==
    LET hits == { i \in 0..(Len(s) - Len(sub)) : SubSeq(s, i + 1, i + Len(sub)) = sub }
    IN  IF hits = {} THEN -1 ELSE CHOOSE i \in hits : \A j \in hits : j <= i

\* strings.Split(s, sep) for a one-character separator
RECURSIVE Split(_, _)
Split(s, sep) ==
    IF \A i \in 1..Len(s) : s[i] # sep
    THEN <<s>>
    ELSE LET i == CHOOSE k \in 1..Len(s) : s[k] = sep /\ \A j \in 1..(k - 1) : s[j] # sep
         IN  <<SubSeq(s, 1, i - 1)>> \o Split(SubSeq(s, i + 1, Len(s)), sep)

Digits == {"0", "1", "2", "3", "4", "5", "6", "7", "8", "9"}

DigitVal(c) ==
    CASE c = "0" -> 0 [] c = "1" -> 1 [] c = "2" -> 2 [] c = "3" -> 3 [] c = "4" -> 4
      [] c = "5" -> 5 [] c = "6" -> 6 [] c = "7" -> 7 [] c = "8" -> 8 [] c = "9" -> 9

RECURSIVE DecVal(_)
DecVal(f) == IF f = <<>> THEN 0 ELSE 10 * DecVal(SubSeq(f, 1, Len(f) - 1)) + DigitVal(f[Len(f)])

\* one decimal field of a dotted IPv4 address: 1..3 digits, no leading
\* zero, value at most 255
IsOctet(f) ==
    /\ Len(f) \in 1..3
    /\ \A i \in 1..Len(f) : f[i] \in Digits
    /\ (Len(f) > 1 => f[1] # "0")
    /\ DecVal(f) <= 255

\* net.ParseIP(host) != nil.  The hosts of the model contain no ":" so only
\* the dotted IPv4 form can match.
ParseIP(host) ==
    LET fs == Split(host, ".")
    IN  Len(fs) = 4 /\ \A i \in 1..4 : IsOctet(fs[i])

\* value of a string of digits, saturating above every value the program
\* distinguishes (ports end at 65535)
RECURSIVE DecValSat(_)
DecValSat(f) ==
    IF f = <<>> THEN 0
    ELSE LET v == 10 * DecValSat(SubSeq(f, 1, Len(f) - 1)) + DigitVal(f[Len(f)])
         IN  IF v > AtoiSat THEN AtoiSat ELSE v

\* a string without its leading zeros
RECURSIVE StripZeros(_)
StripZeros(f) == IF f # <<>> /\ f[1] = "0" THEN StripZeros(Tail(f)) ELSE f

\* lexicographic order of two digit strings of the same length
RECURSIVE DigitsGreater(_, _)
DigitsGreater(a, b) ==
    IF a = <<>> THEN FALSE
    ELSE IF a[1] # b[1] THEN DigitVal(a[1]) > DigitVal(b[1])
    ELSE DigitsGreater(Tail(a), Tail(b))

\* the digits are a number above the limit (math.MaxInt64, or one more
\* for a negative number)
Overflows(digits, limit) ==
    LET d == StripZeros(digits)
    IN  Len(d) > Len(limit) \/ (Len(d) = Len(limit) /\ DigitsGreater(d, limit))

\* strconv.Atoi(s): an optional sign and decimal digits; err is TRUE for
\* an empty or malformed string and for a value outside int64
Atoi(s) ==
    LET signed == s # <<>> /\ s[1] \in {"+", "-"}
        digits == IF signed THEN Tail(s) ELSE s
        neg    == signed /\ s[1] = "-"
    IN  IF digits = <<>> \/ \E i \in 1..Len(digits) : digits[i] \notin Digits
        THEN [err |-> TRUE, val |-> 0]
        ELSE IF Overflows(digits, IF neg THEN MinInt64Digits ELSE MaxInt64Digits)
        THEN [err |-> TRUE, val |-> IF neg THEN -AtoiSat ELSE AtoiSat]
        ELSE [err |-> FALSE,
              val |-> IF neg THEN -DecValSat(digits) ELSE DecValSat(digits)]

\* parseConfig: the TIMEOUT variable in seconds, or the default
parseTimeout(env) ==
    IF env # <<>> /\ ~Atoi(env).err /\ Atoi(env).val > 0
    THEN Atoi(env).val
    ELSE defaultTimeout

(***************************************************************************)
(* Target parser.                                                          *)
(***************************************************************************)
SchemeSep == <<":", "/", "/">>
Slash == <<"/">>
Colon == <<":">>
OpenBracket == <<"[">>
CloseBracket == <<"]">>
SchemeHTTP == <<"h", "t", "t", "p">>
SchemeHTTPS == <<"h", "t", "t", "p", "s">>
SchemeTCP == <<"t", "c", "p">>
SchemeTLS == <<"t", "l", "s">>

UpperLetters == <<"A", "B", "C", "D", "E", "F", "G", "H", "I", "J", "K", "L", "M", "N", "O", "P", "Q", "R", "S", "T", "U", "V", "W", "X", "Y", "Z">>
LowerLetters == <<"a", "b", "c", "d", "e", "f", "g", "h", "i", "j", "k", "l", "m", "n", "o", "p", "q", "r", "s", "t", "u", "v", "w", "x", "y", "z">>

\* strings.Index(s, sub), 0-based, -1 when absent
Index(s, sub) ==
    LET hits == { i \in 0..(Len(s) - Len(sub)) : SubSeq(s, i + 1, i + Len(sub)) = sub }
    IN  IF hits = {} THEN -1 ELSE CHOOSE i \in hits : \A j \in hits : i <= j

\* strings.ToLower(s), on the letters A to Z
ToLower(s) ==
    [i \in 1..Len(s) |->
        IF \E k \in 1..Len(UpperLetters) : UpperLetters[k] = s[i]
        THEN LowerLetters[CHOOSE k \in 1..Len(UpperLetters) : UpperLetters[k] = s[i]]
        ELSE s[i]]

\* the switch on the scheme
InferredPort(scheme) ==
    IF scheme = SchemeHTTP THEN httpPort
    ELSE IF scheme = SchemeHTTPS THEN httpsPort
    ELSE IF scheme \in {SchemeTCP, SchemeTLS} THEN defaultPort
    ELSE defaultPort

\* net.SplitHostPort(hostport): the port is what follows the last colon;
\* a host in brackets must end just before that colon; err is TRUE for a
\* missing port, too many colons and a stray bracket
SplitHostPort(hostport) ==
    LET fail == [err |-> TRUE, host |-> <<>>, port |-> <<>>]
        i == LastIndex(hostport, Colon)
        end == Index(hostport, CloseBracket)
        bracketed == hostport[1] = "["
        host == IF bracketed THEN SubSeq(hostport, 2, end) ELSE SubSeq(hostport, 1, i)
        j == IF bracketed THEN 1 ELSE 0
        k == IF bracketed THEN end + 1 ELSE 0
    IN  IF i < 0 THEN fail
        ELSE IF bracketed /\ (end < 0 \/ end + 1 # i) THEN fail
        ELSE IF ~bracketed /\ Index(host, Colon) >= 0 THEN fail
        ELSE IF Index(SubSeq(hostport, j + 1, Len(hostport)), OpenBracket) >= 0 THEN fail
        ELSE IF Index(SubSeq(hostport, k + 1, Len(hostport)), CloseBracket) >= 0 THEN fail
        ELSE [err |-> FALSE, host |-> host, port |-> SubSeq(hostport, i + 2, Len(hostport))]

\* variant: the upper limit of the port check is missing
PortRejectedNoUpperLimit(a) == a.err \/ a.val <= 0

\* if err != nil || port <= 0 || port > 65535
PortRejected(a) == a.err \/ a.val <= 0 \/ a.val > maxPort

\* the first half of parseTarget: what is left of s once the text up to
\* the first "://" and the text from the first "/" after it are cut, and
\* the port the cut scheme stands for
stripTarget(s) ==
    LET idx1 == Index(s, SchemeSep)
        scheme == IF idx1 # -1 THEN ToLower(SubSeq(s, 1, idx1)) ELSE <<>>
        s1 == IF idx1 # -1 THEN SubSeq(s, idx1 + 4, Len(s)) ELSE s
        idx2 == Index(s1, Slash)
    IN  [rest |-> IF idx2 # -1 THEN SubSeq(s1, 1, idx2) ELSE s1,
         inferredPort |-> IF idx1 # -1 THEN InferredPort(scheme) ELSE defaultPort]

\* variant: the host returned is the whole host:port text
parseTargetHostUnsplit(s) ==
    LET st == stripTarget(s)
        hp == SplitHostPort(st.rest)
        a == Atoi(hp.port)
    IN  [Host |-> st.rest,
         Port |-> IF hp.err \/ PortRejected(a) THEN st.inferredPort ELSE a.val,
         ExpectErr |-> FALSE]

\* parseTarget(s)
parseTarget(s) ==
    LET st == stripTarget(s)
        hp == SplitHostPort(st.rest)
        a == Atoi(hp.port)
    IN  IF hp.err
        THEN [Host |-> st.rest, Port |-> st.inferredPort, ExpectErr |-> FALSE]
        ELSE [Host |-> hp.host,
              Port |-> IF PortRejected(a) THEN st.inferredPort ELSE a.val,
              ExpectErr |-> FALSE]

\* strconv.Itoa(n) for n >= 0
DigitChars == <<"0", "1", "2", "3", "4", "5", "6", "7", "8", "9">>

RECURSIVE Itoa(_)
Itoa(n) == IF n < 10 THEN <<DigitChars[n + 1]>> ELSE Itoa(n \div 10) \o <<DigitChars[(n % 10) + 1]>>

\* the characters strings.TrimSpace removes, as far as an environment
\* variable holds them
WhiteSpace == {" ", "\t", "\n", "\r"}

\* strings.TrimSpace(s)
RECURSIVE TrimSpace(_)
TrimSpace(s) ==
    IF s # <<>> /\ s[1] \in WhiteSpace THEN TrimSpace(Tail(s))
    ELSE IF s # <<>> /\ s[Len(s)] \in WhiteSpace THEN TrimSpace(SubSeq(s, 1, Len(s) - 1))
    ELSE s

\* the loop of parseTargetList over the pieces between the commas
RECURSIVE parseEntries(_, _)
parseEntries(es, expectErr) ==
    IF es = <<>> THEN <<>>
    ELSE LET entry == TrimSpace(Head(es))
         IN  (IF entry = <<>> THEN <<>>
              ELSE <<[parseTarget(entry) EXCEPT !.ExpectErr = expectErr]>>)
             \o parseEntries(Tail(es), expectErr)

\* parseTargetList(raw, expectErr)
parseTargetList(raw, expectErr) == parseEntries(Split(raw, ","), expectErr)

\* the targets parseConfig returns; env holds the values of ALLOW_TARGETS,
\* DENY_TARGETS and TARGETS, the empty string for a variable that is unset
parseConfig(env) ==
    LET a == IF env.allow # <<>> THEN parseTargetList(env.allow, FALSE) ELSE <<>>
        d == IF env.deny # <<>> THEN parseTargetList(env.deny, TRUE) ELSE <<>>
    IN  IF env.legacy # <<>> /\ Len(a \o d) = 0
        THEN (a \o d) \o parseTargetList(env.legacy, FALSE)
        ELSE a \o d

(***************************************************************************)
(* Error classifier.                                                       *)
(***************************************************************************)
\* variant: the generic certificate rule is tried before its two special
\* cases, and the timeout rule before the host rule
simplifyErrorReordered(msg) ==
    IF Contains(msg, IOTimeout) \/ Contains(msg, DeadlineExceeded) THEN TimeoutCat
    ELSE IF Contains(msg, NoSuchHost) THEN NXDOMAIN
    ELSE IF Contains(msg, ConnectionRefused) THEN ConnectionRefused
    ELSE IF Contains(msg, ConnectionReset) THEN ConnectionReset
    ELSE IF Contains(msg, Certificate) THEN CertError
    ELSE IF Contains(msg, HandshakeFailure) THEN TLSHandshakeFailure
    ELSE IF LastIndex(msg, ColonSpace) # -1
         THEN SubSeq(msg, LastIndex(msg, ColonSpace) + 3, Len(msg))
    ELSE msg

\* variant: the rules look at the message in lower case
simplifyErrorFolded(msg) ==
    LET low == ToLower(msg)
    IN  IF Contains(low, NoSuchHost) THEN NXDOMAIN
        ELSE IF Contains(low, IOTimeout) \/ Contains(low, DeadlineExceeded) THEN TimeoutCat
        ELSE IF Contains(low, ConnectionRefused) THEN ConnectionRefused
        ELSE IF Contains(low, ConnectionReset) THEN ConnectionReset
        ELSE IF Contains(low, Certificate)
             THEN IF Contains(low, UnknownAuthority) THEN CertUnknownAuthority
                  ELSE IF Contains(low, Expired) THEN CertExpired
                  ELSE CertError
        ELSE IF Contains(low, HandshakeFailure) THEN TLSHandshakeFailure
        ELSE IF LastIndex(msg, ColonSpace) # -1
             THEN SubSeq(msg, LastIndex(msg, ColonSpace) + 3, Len(msg))
        ELSE msg

simplifyError(msg) ==
    IF Contains(msg, NoSuchHost) THEN NXDOMAIN
    ELSE IF Contains(msg, IOTimeout) \/ Contains(msg, DeadlineExceeded) THEN TimeoutCat
    ELSE IF Contains(msg, ConnectionRefused) THEN ConnectionRefused
    ELSE IF Contains(msg, ConnectionReset) THEN ConnectionReset
    ELSE IF Contains(msg, Certificate)
         THEN IF Contains(msg, UnknownAuthority) THEN CertUnknownAuthority
              ELSE IF Contains(msg, Expired) THEN CertExpired
              ELSE CertError
    ELSE IF Contains(msg, HandshakeFailure) THEN TLSHandshakeFailure
    ELSE IF LastIndex(msg, ColonSpace) # -1
         THEN SubSeq(msg, LastIndex(msg, ColonSpace) + 3, Len(msg))
    ELSE msg

(***************************************************************************)
(* Data model.                                                             *)
(***************************************************************************)
\* zero value of Target
ZeroTarget == [Host |-> <<>>, Port |-> 0, ExpectErr |-> FALSE]

\* zero value of PhaseResult
ZeroPhase == [Success |-> FALSE, Duration |-> 0, Detail |-> <<>>]

\* zero value of TestResult, as make([]TestResult, n) fills the slice
ZeroResult == [Target |-> ZeroTarget, DNS |-> ZeroPhase, TCP |-> ZeroPhase,
               TLS |-> ZeroPhase, Passed |-> FALSE, Blocked |-> FALSE]

\* targets parseConfig can hand to main: allow and deny entries on the
\* hosts of the model, default port
Targets == [Host : Hosts, Port : {defaultPort}, ExpectErr : BOOLEAN]

\* PhaseResult{Detail: "skipped (DNS failed)"}
SkipDNS == [Success |-> FALSE, Duration |-> 0, Detail |-> SkippedDNSFailed]

\* variant: the TLS skip after a TCP failure blames DNS
SkipTCPBlamesDNS == [Success |-> FALSE, Duration |-> 0, Detail |-> SkippedDNSFailed]

\* PhaseResult{Detail: "skipped (TCP failed)"}
SkipTCP == [Success |-> FALSE, Duration |-> 0, Detail |-> SkippedTCPFailed]

\* the failure return of a probe
PhaseFailure(err, elapsed) ==
    [Success |-> FALSE, Duration |-> elapsed, Detail |-> simplifyError(err)]

\* the word formatPhaseCell looks for at the start of a detail
Skipped == <<"s", "k", "i", "p", "p", "e", "d">>

\* variant: every phase that did not succeed is shown as a dash
formatPhaseCellDashOnFailure(p) ==
    IF ~p.Success THEN [mark |-> "dash", text |-> <<>>]
    ELSE [mark |-> "ok", text |-> p.Duration]

\* formatPhaseCell(p): the mark of the cell (a dash, a check mark or a
\* cross) and the text after it (the milliseconds or the detail)
formatPhaseCell(p) ==
    IF ~p.Success /\ (p.Detail = <<>> \/ HasPrefix(p.Detail, Skipped))
    THEN [mark |-> "dash", text |-> <<>>]
    ELSE IF p.Success THEN [mark |-> "ok", text |-> p.Duration]
    ELSE [mark |-> "fail", text |-> p.Detail]

\* testDNS on a literal address: no query is made
testDNSLiteral(target) ==
    [Success |-> TRUE, Duration |-> 0, Detail |-> target.Host \o LiteralSuffix]

\* the name testDNS hands to the resolver: fully qualified
lookupHost(target) ==
    IF HasSuffix(target.Host, Dot) THEN target.Host ELSE target.Host \o Dot

\* testDNS after LookupIP answered
testDNS(reply, elapsed) ==
    IF ~reply.ok THEN PhaseFailure(reply.err, elapsed)
    ELSE [Success |-> TRUE, Duration |-> elapsed, Detail |-> reply.val]

\* testTCP after DialTimeout answered
testTCP(reply, elapsed) ==
    IF ~reply.ok THEN PhaseFailure(reply.err, elapsed)
    ELSE [Success |-> TRUE, Duration |-> elapsed, Detail |-> Connected]

\* testTLS after tls.DialWithDialer answered
testTLS(reply, elapsed) ==
    IF ~reply.ok THEN PhaseFailure(reply.err, elapsed)
    ELSE [Success |-> TRUE, Duration |-> elapsed, Detail |-> reply.val]

(***************************************************************************)
(* Decisions of runTests and main.                                         *)
(***************************************************************************)
\* variant: a failed warm-up ends the run
AfterWarmupAbort(reply) == IF reply.ok THEN "dns" ELSE "done"

\* main drops the answer of the warm-up and goes on to runTests
AfterWarmup(reply) == "dns"

\* variant: the literal branch is missing, every host is looked up
IsLiteralNever(t) == FALSE

\* if ip := net.ParseIP(target.Host); ip != nil
IsLiteral(t) == ParseIP(t.Host)

\* variant: the target is not copied into the new result
NewResultNoTarget(t) == ZeroResult

\* results[i] = TestResult{Target: t}
NewResult(t) == [ZeroResult EXCEPT !.Target = t]

\* variant: the lookup is fired and the loop moves on without waiting
DNSCallAsync(i) == [pc |-> "dns", idx |-> i + 1]

\* the DNS loop calls testDNS synchronously: the orchestrator stays at
\* iteration i until the call returns
DNSCallNext(i) == [pc |-> "dns_wait", idx |-> i]

\* variant: the DNS loop stops after its first iteration
DNSLoopDoneEarly(i, n) == i > 1

\* exit condition of "for i, t := range targets"
DNSLoopDone(i, n) == i > n

\* variant: a failed lookup is tried again
DNSLoopStepRetry(i, r) == IF r.Success THEN i + 1 ELSE i

\* the range loop moves on to the next target whatever testDNS returned
DNSLoopStep(i, r) == i + 1

\* variant: the DNS gate is missing, a unit is launched for every target
DNSFailedNever(r) == FALSE

\* variant: every target is treated as DNS-failed, no unit is launched
DNSFailedAlways(r) == TRUE

\* if !results[i].DNS.Success
DNSFailed(r) == ~r.DNS.Success

\* variant: the first DNS-failed target ends the fan-out loop
AfterSkipBreak(i, n) == n + 1

\* continue: the fan-out loop goes on with the next target
AfterSkip(i, n) == i + 1

\* variant: every unit works on the first slot
GoIdxFirst(i) == 1

\* the index a launched unit works on: the argument idx, bound to i
GoIdx(i) == i

\* variant: the TCP gate is missing, TLS is always probed
TCPFailedNever(r) == FALSE

\* variant: the test of the TCP outcome is inverted
TCPFailedOnSuccess(r) == r.TCP.Success

\* if !results[idx].TCP.Success
TCPFailed(r) == ~r.TCP.Success

\* variant: the join does not wait
WaitReturnsAlways(w) == TRUE

\* wg.Wait() returns when the counter is zero
WaitReturns(w) == w = 0

\* variant: the TLS phase is left out of the verdict
BlockedNoTLS(r) == ~r.DNS.Success \/ ~r.TCP.Success

\* blocked := !DNS.Success || !TCP.Success || !TLS.Success
Blocked(r) == ~r.DNS.Success \/ ~r.TCP.Success \/ ~r.TLS.Success

\* variant: the expectation is ignored, every target is treated as ALLOW
PassedAsAllow(t, blocked) == ~blocked

\* DENY target: pass if blocked; ALLOW target: pass if reachable
Passed(t, blocked) == IF t.ExpectErr THEN blocked ELSE ~blocked

\* one iteration of the evaluation loop of main
Evaluate(r) == [r EXCEPT !.Blocked = Blocked(r), !.Passed = Passed(r.Target, Blocked(r))]

\* variant: any phase failure fails the run, whatever the expectation
ExitStatusAnyFailure(rs) ==
    IF \E i \in 1..Len(rs) : ~rs[i].DNS.Success \/ ~rs[i].TCP.Success \/ ~rs[i].TLS.Success
    THEN 1 ELSE 0

\* the final loop of main: os.Exit(1) at the first result that did not
\* pass, otherwise main returns and the process exits with status 0
ExitStatus(rs) == IF \E i \in 1..Len(rs) : ~rs[i].Passed THEN 1 ELSE 0

(***************************************************************************)
(* State.                                                                  *)
(***************************************************************************)
VARIABLES
    targets,    \* the target list parseConfig returned
    pc,         \* position of the main goroutine
    idx,        \* loop variable of the main goroutine
    results,    \* the results slice of runTests
    wg,         \* counter of the sync.WaitGroup
    gpc,        \* position of the unit launched at each index
    inflight,   \* network operations called and not yet returned
    invoked,    \* history: how often each probe was called, per index
    assigned,   \* history: how often each phase field was assigned
    accesses,   \* history: memory accesses with their concurrency context
    exitCode,   \* process exit status, meaningful once pc = "done"
    latency,    \* environment: what time.Since reports for a probe of this run
    timeout,    \* the per-phase timeout parseConfig returned
    replies,    \* history: what the network answered to each probe, per index
    warm,       \* history: warm-up lookups sent and answered, and the answer
    fin,        \* argument of the pure function under study
    fout,       \* its result
    fpc         \* "off" in a run of main; "in"/"out" around a function call

vars == <<targets, pc, idx, results, wg, gpc, inflight, invoked, assigned,
          accesses, exitCode, latency, timeout, replies, warm, fin, fout, fpc>>

Phases == {"dns", "tcp", "tls"}
Fields == {"Target", "DNS", "TCP", "TLS", "Passed", "Blocked"}
PhaseFields == {"DNS", "TCP", "TLS"}

N == Len(targets)

\* units launched and not ordered before the current step of the main
\* goroutine: before wg.Wait returns every launched unit, afterwards the
\* units that have not signalled completion
Unjoined ==
    IF pc \in {"dns", "dns_wait", "fanout"}
    THEN { g \in 1..N : gpc[g] # "none" }
    ELSE { g \in 1..N : gpc[g] \notin {"none", "done"} }

\* an access of the main goroutine (who = 0) or of the unit launched at
\* index who
Acc(who, arr, slot, field, kind) ==
    [who |-> who, loc |-> <<arr, slot, field>>, kind |-> kind,
     conc |-> IF who = 0 THEN Unjoined ELSE {}]

\* variant: the phases after DNS get what the lookup left of one budget
OpPipelineBudget(phase, i, q, t) ==
    [phase |-> phase, idx |-> i, q |-> q,
     timeout |-> IF phase = "dns" THEN t ELSE t - latency]

\* a network operation: its phase, the index it is for (0: the warm-up),
\* the name or host it addresses and the deadline it was given
Op(phase, i, q, t) == [phase |-> phase, idx |-> i, q |-> q, timeout |-> t]

\* no answer recorded yet
NoReply == [ok |-> FALSE, err |-> <<>>, val |-> <<"-">>]

\* the state when main starts, for the given settings of TIMEOUT and the
\* given times a probe may take
Start(envs, elapsed) ==
    /\ targets \in UNION { [1..n -> Targets] : n \in 0..MaxTargets }
    /\ pc = "config"
    /\ idx = 0
    /\ results = <<>>
    /\ wg = 0
    /\ gpc = [g \in 1..Len(targets) |-> "none"]
    /\ inflight = {}
    /\ invoked = [p \in Phases |-> [i \in 1..Len(targets) |-> 0]]
    /\ assigned = [f \in PhaseFields |-> [i \in 1..Len(targets) |-> 0]]
    /\ accesses = {}
    /\ exitCode = 0
    /\ latency \in elapsed
    /\ timeout \in { parseTimeout(e) : e \in envs }
    /\ replies = [p \in Phases |-> [i \in 1..Len(targets) |-> NoReply]]
    /\ warm = [sent |-> 0, answered |-> 0, ok |-> FALSE]
    /\ fin = <<>>
    /\ fout = <<>>
    /\ fpc = "off"

\* TIMEOUT is not set
Init == Start({<<>>}, ElapsedVals)

\* TIMEOUT is unset, a number of seconds, zero or not a number; probes
\* take no measurable time
InitWarm == Start(TimeoutEnvs, {0})

(***************************************************************************)
(* main, up to runTests.                                                   *)
(***************************************************************************)
\* variant: the length of the target list is not checked
NoTargetsUnchecked ==
    /\ pc = "config"
    /\ N = 0
    /\ pc' = "warmup_wait"
    /\ inflight' = inflight \cup {Op("dns", 0, WarmupName, timeout)}
    /\ warm' = [warm EXCEPT !.sent = @ + 1]
    /\ UNCHANGED <<fin, fout, fpc, timeout, replies, latency, targets, idx, results, wg, gpc, invoked, assigned, accesses, exitCode>>

\* if len(targets) == 0 { ...; os.Exit(1) }
NoTargets ==
    /\ pc = "config"
    /\ N = 0
    /\ pc' = "done"
    /\ exitCode' = 1
    /\ UNCHANGED <<fin, fout, fpc, timeout, replies, warm, latency, targets, idx, results, wg, gpc, inflight, invoked, assigned, accesses>>

\* warmupDNS: the throwaway lookup is sent
WarmupCall ==
    /\ pc = "config"
    /\ N # 0
    /\ pc' = "warmup_wait"
    /\ inflight' = inflight \cup {Op("dns", 0, WarmupName, timeout)}
    /\ warm' = [warm EXCEPT !.sent = @ + 1]
    /\ UNCHANGED <<fin, fout, fpc, timeout, replies, latency, targets, idx, results, wg, gpc, invoked, assigned, accesses, exitCode>>

\* warmupDNS returns; its answer is dropped.  runTests starts with
\* results := make([]TestResult, len(targets)).  With keep, the dropped
\* answer is remembered in the history variable warm.
WarmupAnswered(keep) ==
    /\ pc = "warmup_wait"
    /\ \E reply \in DNSReplies :
          /\ warm' = [warm EXCEPT !.answered = @ + 1,
                                   !.ok = IF keep THEN reply.ok ELSE @]
          /\ pc' = AfterWarmup(reply)
    /\ inflight' = inflight \ {Op("dns", 0, WarmupName, timeout)}
    /\ results' = [i \in 1..N |-> ZeroResult]
    /\ idx' = 1
    /\ UNCHANGED <<fin, fout, fpc, timeout, replies, latency, targets, wg, gpc, invoked, assigned, accesses, exitCode>>

WarmupReturn == WarmupAnswered(FALSE)

WarmupReturnKept == WarmupAnswered(TRUE)

(***************************************************************************)
(* runTests: the sequential DNS loop.                                      *)
(***************************************************************************)
\* whole-struct store results[i] = TestResult{Target: t}
StoreNew(i) == { Acc(0, "results", i, f, "w") : f \in Fields }

\* one iteration on a literal address: testDNS returns without a query
DNSLiteral ==
    /\ pc = "dns"
    /\ ~DNSLoopDone(idx, N)
    /\ idx \in 1..N
    /\ IsLiteral(targets[idx])
    /\ results' = [results EXCEPT ![idx] =
                      [NewResult(targets[idx]) EXCEPT !.DNS = testDNSLiteral(targets[idx])]]
    /\ invoked' = [invoked EXCEPT !["dns"][idx] = @ + 1]
    /\ assigned' = [assigned EXCEPT !["DNS"][idx] = @ + 1]
    /\ accesses' = accesses \cup StoreNew(idx)
                     \cup {Acc(0, "targets", idx, "*", "r"), Acc(0, "results", idx, "DNS", "w")}
    /\ idx' = DNSLoopStep(idx, testDNSLiteral(targets[idx]))
    /\ UNCHANGED <<fin, fout, fpc, timeout, replies, warm, latency, targets, pc, wg, gpc, inflight, exitCode>>

\* one iteration on a host name: testDNS sends the query
DNSCall ==
    /\ pc = "dns"
    /\ ~DNSLoopDone(idx, N)
    /\ idx \in 1..N
    /\ ~IsLiteral(targets[idx])
    /\ results' = [results EXCEPT ![idx] = NewResult(targets[idx])]
    /\ invoked' = [invoked EXCEPT !["dns"][idx] = @ + 1]
    /\ inflight' = inflight \cup {Op("dns", idx, lookupHost(targets[idx]), timeout)}
    /\ accesses' = accesses \cup StoreNew(idx) \cup {Acc(0, "targets", idx, "*", "r")}
    /\ pc' = DNSCallNext(idx).pc
    /\ idx' = DNSCallNext(idx).idx
    /\ UNCHANGED <<fin, fout, fpc, timeout, replies, warm, latency, targets, wg, gpc, assigned, exitCode>>

\* LookupIP answers; testDNS returns and its result is stored
DNSReturn ==
    \E op \in inflight :
       /\ op.phase = "dns"
       /\ op.idx # 0
       /\ \E reply \in DNSReplies :
             /\ results' = [results EXCEPT ![op.idx].DNS = testDNS(reply, latency)]
             /\ replies' = [replies EXCEPT !["dns"][op.idx] = reply]
       /\ inflight' = inflight \ {op}
       /\ assigned' = [assigned EXCEPT !["DNS"][op.idx] = @ + 1]
       /\ accesses' = accesses \cup {Acc(0, "results", op.idx, "DNS", "w")}
       /\ IF pc = "dns_wait" /\ idx = op.idx
          THEN pc' = "dns" /\ idx' = DNSLoopStep(idx, results'[idx].DNS)
          ELSE UNCHANGED <<pc, idx>>
       /\ UNCHANGED <<fin, fout, fpc, timeout, warm, latency, targets, wg, gpc, invoked, exitCode>>

\* the DNS loop is over; the fan-out loop starts
DNSLoopExit ==
    /\ pc = "dns"
    /\ DNSLoopDone(idx, N)
    /\ pc' = "fanout"
    /\ idx' = 1
    /\ UNCHANGED <<fin, fout, fpc, timeout, replies, warm, latency, targets, results, wg, gpc, inflight, invoked, assigned, accesses, exitCode>>

(***************************************************************************)
(* runTests: the fan-out loop and the join.                                *)
(***************************************************************************)
\* DNS failed: both later phases are recorded as skipped, no unit is launched
FanoutSkip ==
    /\ pc = "fanout"
    /\ idx \in 1..N
    /\ DNSFailed(results[idx])
    /\ results' = [results EXCEPT ![idx].TCP = SkipDNS, ![idx].TLS = SkipDNS]
    /\ assigned' = [assigned EXCEPT !["TCP"][idx] = @ + 1, !["TLS"][idx] = @ + 1]
    /\ accesses' = accesses \cup {Acc(0, "results", idx, "DNS", "r"),
                                   Acc(0, "results", idx, "TCP", "w"),
                                   Acc(0, "results", idx, "TLS", "w")}
    /\ idx' = AfterSkip(idx, N)
    /\ UNCHANGED <<fin, fout, fpc, timeout, replies, warm, latency, targets, pc, wg, gpc, inflight, invoked, exitCode>>

\* variant: the unit is launched without wg.Add(1), so nothing waits for it
FanoutLaunchNoAdd ==
    /\ pc = "fanout"
    /\ idx \in 1..N
    /\ ~DNSFailed(results[idx])
    /\ gpc' = [gpc EXCEPT ![idx] = "start"]
    /\ accesses' = accesses \cup {Acc(0, "results", idx, "DNS", "r")}
    /\ idx' = idx + 1
    /\ UNCHANGED <<fin, fout, fpc, timeout, replies, warm, latency, targets, pc, results, wg, inflight, invoked, assigned, exitCode>>

\* DNS succeeded: wg.Add(1); go func(idx int) {...}(i)
FanoutLaunch ==
    /\ pc = "fanout"
    /\ idx \in 1..N
    /\ ~DNSFailed(results[idx])
    /\ wg' = wg + 1
    /\ gpc' = [gpc EXCEPT ![idx] = "start"]
    /\ accesses' = accesses \cup {Acc(0, "results", idx, "DNS", "r")}
    /\ idx' = idx + 1
    /\ UNCHANGED <<fin, fout, fpc, timeout, replies, warm, latency, targets, pc, results, inflight, invoked, assigned, exitCode>>

\* wg.Wait() returns; runTests returns results to main
WaitReturn ==
    /\ pc = "fanout"
    /\ idx > N
    /\ WaitReturns(wg)
    /\ pc' = "eval"
    /\ UNCHANGED <<fin, fout, fpc, timeout, replies, warm, latency, targets, idx, results, wg, gpc, inflight, invoked, assigned, accesses, exitCode>>

(***************************************************************************)
(* The unit of work launched for index g.                                  *)
(***************************************************************************)
\* testTCP(targets[idx], timeout) is called: the dial starts
TCPCall(g) ==
    /\ gpc[g] = "start"
    /\ gpc' = [gpc EXCEPT ![g] = "tcp_wait"]
    /\ inflight' = inflight \cup {Op("tcp", GoIdx(g), targets[GoIdx(g)].Host, timeout)}
    /\ invoked' = [invoked EXCEPT !["tcp"][GoIdx(g)] = @ + 1]
    /\ accesses' = accesses \cup {Acc(g, "targets", GoIdx(g), "*", "r")}
    /\ UNCHANGED <<fin, fout, fpc, timeout, replies, warm, latency, targets, pc, idx, results, wg, assigned, exitCode>>

\* the dial answers; results[idx].TCP = the value testTCP returns
TCPReturn(g) ==
    /\ gpc[g] = "tcp_wait"
    /\ \E reply \in TCPReplies :
          /\ results' = [results EXCEPT ![GoIdx(g)].TCP = testTCP(reply, latency)]
          /\ replies' = [replies EXCEPT !["tcp"][GoIdx(g)] = reply]
    /\ gpc' = [gpc EXCEPT ![g] = "tcp_check"]
    /\ inflight' = inflight \ {Op("tcp", GoIdx(g), targets[GoIdx(g)].Host, timeout)}
    /\ assigned' = [assigned EXCEPT !["TCP"][GoIdx(g)] = @ + 1]
    /\ accesses' = accesses \cup {Acc(g, "results", GoIdx(g), "TCP", "w")}
    /\ UNCHANGED <<fin, fout, fpc, timeout, warm, latency, targets, pc, idx, wg, invoked, exitCode>>

\* variant: wg.Done() is not deferred and the early return leaves without it
TCPFailedSkipNoDone(g) ==
    /\ gpc[g] = "tcp_check"
    /\ TCPFailed(results[GoIdx(g)])
    /\ results' = [results EXCEPT ![GoIdx(g)].TLS = SkipTCP]
    /\ gpc' = [gpc EXCEPT ![g] = "done"]
    /\ assigned' = [assigned EXCEPT !["TLS"][GoIdx(g)] = @ + 1]
    /\ accesses' = accesses \cup {Acc(g, "results", GoIdx(g), "TCP", "r"),
                                   Acc(g, "results", GoIdx(g), "TLS", "w")}
    /\ UNCHANGED <<fin, fout, fpc, timeout, replies, warm, latency, targets, pc, idx, wg, inflight, invoked, exitCode>>

\* TCP failed: TLS is recorded as skipped and the unit returns
TCPFailedSkip(g) ==
    /\ gpc[g] = "tcp_check"
    /\ TCPFailed(results[GoIdx(g)])
    /\ results' = [results EXCEPT ![GoIdx(g)].TLS = SkipTCP]
    /\ gpc' = [gpc EXCEPT ![g] = "exit"]
    /\ assigned' = [assigned EXCEPT !["TLS"][GoIdx(g)] = @ + 1]
    /\ accesses' = accesses \cup {Acc(g, "results", GoIdx(g), "TCP", "r"),
                                   Acc(g, "results", GoIdx(g), "TLS", "w")}
    /\ UNCHANGED <<fin, fout, fpc, timeout, replies, warm, latency, targets, pc, idx, wg, inflight, invoked, exitCode>>

\* TCP succeeded: testTLS(targets[idx], timeout) is called
TLSCall(g) ==
    /\ gpc[g] = "tcp_check"
    /\ ~TCPFailed(results[GoIdx(g)])
    /\ gpc' = [gpc EXCEPT ![g] = "tls_wait"]
    /\ inflight' = inflight \cup {Op("tls", GoIdx(g), targets[GoIdx(g)].Host, timeout)}
    /\ invoked' = [invoked EXCEPT !["tls"][GoIdx(g)] = @ + 1]
    /\ accesses' = accesses \cup {Acc(g, "results", GoIdx(g), "TCP", "r"),
                                   Acc(g, "targets", GoIdx(g), "*", "r")}
    /\ UNCHANGED <<fin, fout, fpc, timeout, replies, warm, latency, targets, pc, idx, results, wg, assigned, exitCode>>

\* the handshake answers; results[idx].TLS = the value testTLS returns
TLSReturn(g) ==
    /\ gpc[g] = "tls_wait"
    /\ \E reply \in TLSReplies :
          /\ results' = [results EXCEPT ![GoIdx(g)].TLS = testTLS(reply, latency)]
          /\ replies' = [replies EXCEPT !["tls"][GoIdx(g)] = reply]
    /\ gpc' = [gpc EXCEPT ![g] = "exit"]
    /\ inflight' = inflight \ {Op("tls", GoIdx(g), targets[GoIdx(g)].Host, timeout)}
    /\ assigned' = [assigned EXCEPT !["TLS"][GoIdx(g)] = @ + 1]
    /\ accesses' = accesses \cup {Acc(g, "results", GoIdx(g), "TLS", "w")}
    /\ UNCHANGED <<fin, fout, fpc, timeout, warm, latency, targets, pc, idx, wg, invoked, exitCode>>

\* defer wg.Done()
UnitDone(g) ==
    /\ gpc[g] = "exit"
    /\ gpc' = [gpc EXCEPT ![g] = "done"]
    /\ wg' = wg - 1
    /\ UNCHANGED <<fin, fout, fpc, timeout, replies, warm, latency, targets, pc, idx, results, inflight, invoked, assigned, accesses, exitCode>>

(***************************************************************************)
(* main, after runTests.                                                   *)
(***************************************************************************)
\* the evaluation loop: Blocked and Passed of every result
EvaluateAll ==
    /\ pc = "eval"
    /\ results' = [i \in 1..Len(results) |-> Evaluate(results[i])]
    /\ accesses' = accesses
                     \cup { Acc(0, "results", i, f, "r") : i \in 1..Len(results),
                                                           f \in {"Target", "DNS", "TCP", "TLS"} }
                     \cup { Acc(0, "results", i, f, "w") : i \in 1..Len(results),
                                                           f \in {"Passed", "Blocked"} }
    /\ pc' = "exit"
    /\ UNCHANGED <<fin, fout, fpc, timeout, replies, warm, latency, targets, idx, wg, gpc, inflight, invoked, assigned, exitCode>>

\* the exit loop
Exit ==
    /\ pc = "exit"
    /\ exitCode' = ExitStatus(results)
    /\ accesses' = accesses \cup { Acc(0, "results", i, "Passed", "r") : i \in 1..Len(results) }
    /\ pc' = "done"
    /\ UNCHANGED <<fin, fout, fpc, timeout, replies, warm, latency, targets, idx, results, wg, gpc, inflight, invoked, assigned>>

\* every step but the return of the warm-up
Steps ==
    \/ NoTargets
    \/ WarmupCall
    \/ DNSLiteral
    \/ DNSCall
    \/ DNSReturn
    \/ DNSLoopExit
    \/ FanoutSkip
    \/ FanoutLaunch
    \/ WaitReturn
    \/ \E g \in 1..N : TCPCall(g)
    \/ \E g \in 1..N : TCPReturn(g)
    \/ \E g \in 1..N : TCPFailedSkip(g)
    \/ \E g \in 1..N : TLSCall(g)
    \/ \E g \in 1..N : TLSReturn(g)
    \/ \E g \in 1..N : UnitDone(g)
    \/ EvaluateAll
    \/ Exit

Next == WarmupReturn \/ Steps

Spec == Init /\ [][Next]_vars

\* the same program when every probe that was called returns and every
\* goroutine that can run does run in the end; how long a probe takes
\* plays no part in that, probes take no measurable time
InitLive == Start({<<>>}, {0})

SpecLive == InitLive /\ [][Next]_vars /\ WF_vars(Next)

\* most ticks between the deadline of a probe and the reading of the clock
\* after it has returned
MaxOverrun == 1

\* what time.Since may report for a probe with deadline t: nothing
\* measurable, the whole of t, or t and the time it took to return
TimedElapsed(t) == {0, t} \cup { t + k : k \in 1..MaxOverrun }

\* TIMEOUT=2, and a probe may take as long as its deadline allows
InitTime == Start({<<"2">>}, TimedElapsed(parseTimeout(<<"2">>)))

SpecTime == InitTime /\ [][Next]_vars

\* the same program for every setting of TIMEOUT, remembering what the
\* warm-up lookup answered
NextWarm == WarmupReturnKept \/ Steps

SpecWarm == InitWarm /\ [][NextWarm]_vars

(***************************************************************************)
(* simplifyError on its own: the messages it is given.                     *)
(***************************************************************************)
\* most fragments joined into one message
MaxFrags == 2

\* pieces of the messages net and crypto/tls produce, besides the
\* substrings the rules look for; two of those substrings also appear with
\* capital letters
FragDial == <<"d", "i", "a", "l", " ", "t", "c", "p", ":", " ">>
FragRemote == <<"r", "e", "m", "o", "t", "e", " ", "e", "r", "r", "o", "r", ":", " ">>
FragTLS == <<"t", "l", "s", ":", " ">>
FragX509 == <<"x", "5", "0", "9", ":", " ">>
FragEOF == <<"E", "O", "F">>
FragUnreachable == <<"c", "o", "n", "n", "e", "c", "t", ":", " ", "n", "e", "t", "w", "o", "r", "k", " ", "i", "s", " ", "u", "n", "r", "e", "a", "c", "h", "a", "b", "l", "e">>
FragColon == <<":">>
FragSpace == <<" ">>

Fragments ==
    {NoSuchHost, IOTimeout, DeadlineExceeded, ConnectionRefused, ConnectionReset,
     Certificate, UnknownAuthority, Expired, HandshakeFailure,
     FragDial, FragRemote, FragTLS, FragX509,
     FragEOF, FragUnreachable, FragColon, FragSpace,
     <<"N", "o", " ", "S", "u", "c", "h", " ", "H", "o", "s", "t">>,
     <<"C", "o", "n", "n", "e", "c", "t", "i", "o", "n", " ", "r", "e", "f", "u", "s", "e", "d">>}

\* the messages made of n fragments
RECURSIVE FragSeqs(_)
FragSeqs(n) ==
    IF n = 0 THEN {<<>>}
    ELSE { f \o m : f \in Fragments, m \in FragSeqs(n - 1) }

\* msg := err.Error()
Messages == UNION { FragSeqs(n) : n \in 0..MaxFrags }

\* the variables of a run of main, at rest while one function is studied
mainVars == <<targets, pc, idx, results, wg, gpc, inflight, invoked, assigned,
              accesses, exitCode, latency, timeout, replies, warm>>

Idle ==
    /\ targets = <<>>
    /\ pc = "off"
    /\ idx = 0
    /\ results = <<>>
    /\ wg = 0
    /\ gpc = <<>>
    /\ inflight = {}
    /\ invoked = [p \in Phases |-> <<>>]
    /\ assigned = [f \in PhaseFields |-> <<>>]
    /\ accesses = {}
    /\ exitCode = 0
    /\ latency = 0
    /\ timeout = defaultTimeout
    /\ replies = [p \in Phases |-> <<>>]
    /\ warm = [sent |-> 0, answered |-> 0, ok |-> FALSE]

InitClassify ==
    /\ Idle
    /\ fpc = "in"
    /\ fin \in Messages
    /\ fout = <<>>

\* one call of simplifyError
Classify ==
    /\ fpc = "in"
    /\ fout' = simplifyError(fin)
    /\ fpc' = "out"
    /\ UNCHANGED <<fin, mainVars>>

NextClassify == Classify

SpecClassify == InitClassify /\ [][NextClassify]_vars

(***************************************************************************)
(* parseConfig on its own: the values of the three list variables.         *)
(***************************************************************************)
\* values of a list variable: unset, without an entry, one entry, several
\* entries, entries with blanks and an empty piece between them
RawLists ==
    {<<>>,
     <<",">>,
     <<" ">>,
     <<"a", ".", "i", "o">>,
     <<"a", ".", "i", "o", ",", "1", ".", "1", ".", "1", ".", "1", ":", "5", "3">>,
     <<" ", "a", ".", "i", "o", " ", ",", " ", ",", "h", "t", "t", "p", ":", "/", "/", "a", ".", "i", "o", ":", "8", "0", "/", "p">>,
     <<"1", ".", "1", ".", "1", ".", "1", ":", "5", "3">>}

Envs == [allow : RawLists, deny : RawLists, legacy : RawLists]

InitConfig ==
    /\ Idle
    /\ fpc = "in"
    /\ fin \in Envs
    /\ fout = <<>>

\* one call of parseConfig
Config ==
    /\ fpc = "in"
    /\ fout' = parseConfig(fin)
    /\ fpc' = "out"
    /\ UNCHANGED <<fin, mainVars>>

NextConfig == Config

SpecConfig == InitConfig /\ [][NextConfig]_vars

(***************************************************************************)
(* parseTarget on its own: the entries it is given.                        *)
(***************************************************************************)
\* most "scheme://" prefixes in front of an entry
MaxSchemes == 1

\* scheme words as an operator may write them
SchemeWords ==
    {<<"h", "t", "t", "p">>,
     <<"H", "T", "T", "P">>,
     <<"H", "t", "t", "p">>,
     <<"h", "t", "t", "p", "s">>,
     <<"t", "c", "p">>,
     <<"T", "L", "S">>,
     <<"f", "t", "p">>}

\* host texts: names, literal addresses, bracketed and stray-bracket forms
HostParts ==
    {<<>>,
     <<"a", ".", "i", "o">>,
     <<"1", ".", "1", ".", "1", ".", "1">>,
     <<"[", ":", ":", "1", "]">>,
     <<":", ":", "1">>,
     <<"[", "a", ".", "i", "o">>,
     <<"a", ".", "i", "o", "]">>}

\* what follows the host: nothing, or a colon and a port text
PortParts ==
    {<<>>,
     <<":">>,
     <<":", "8", "0">>,
     <<":", "5", "3">>,
     <<":", "0">>,
     <<":", "-", "1">>,
     <<":", "+", "8", "0">>,
     <<":", "0", "8", "0">>,
     <<":", "6", "5", "5", "3", "5">>,
     <<":", "6", "5", "5", "3", "6">>,
     <<":", "9", "9", "9", "9", "9", "9">>,
     <<":", "8", "x">>,
     <<":", "9", "2", "2", "3", "3", "7", "2", "0", "3", "6", "8", "5", "4", "7", "7", "5", "8", "0", "8">>}

\* what follows the port: nothing, or a path
PathParts ==
    {<<>>,
     <<"/">>,
     <<"/", "p">>,
     <<"/", "p", ":", "8", "1">>,
     <<"/", "p", ":", "/", "/", "q">>}

\* n scheme prefixes in a row
RECURSIVE SchemePrefixes(_)
SchemePrefixes(n) ==
    IF n = 0 THEN {<<>>}
    ELSE { w \o SchemeSep \o p : w \in SchemeWords, p \in SchemePrefixes(n - 1) }

\* the entries of a target list, by their parts
\* the entry as written in ALLOW_TARGETS or DENY_TARGETS
Raw(e) == e.scheme \o e.host \o e.port \o e.path

\* parseTargetList hands over every entry that is not empty
Entries ==
    { e \in [scheme : UNION { SchemePrefixes(n) : n \in 0..MaxSchemes },
              host : HostParts, port : PortParts, path : PathParts] :
         Raw(e) # <<>> }

InitParse ==
    /\ Idle
    /\ fpc = "in"
    /\ fin \in Entries
    /\ fout = ZeroTarget

\* one call of parseTarget
Parse ==
    /\ fpc = "in"
    /\ fout' = parseTarget(Raw(fin))
    /\ fpc' = "out"
    /\ UNCHANGED <<fin, mainVars>>

NextParse == Parse

SpecParse == InitParse /\ [][NextParse]_vars

(***************************************************************************)
(* Vocabulary of the properties.                                           *)
(***************************************************************************)
\* runTests has returned its results to main
Returned == pc \in {"eval", "exit", "done"} /\ N > 0

\* the evaluation loop of main has run
Evaluated == pc \in {"exit", "done"} /\ N > 0

\* a skip outcome: not succeeded, no elapsed time, a skip literal as detail
IsSkip(p) ==
    ~p.Success /\ p.Duration = 0 /\ p.Detail \in {SkippedDNSFailed, SkippedTCPFailed}

\* an outcome of a probe that ran and failed
IsFailure(p) == ~p.Success /\ ~IsSkip(p)

\* DNS lookups in flight
DNSInFlight == { op \in inflight : op.phase = "dns" }

\* two accesses that no synchronisation orders: two different units, or
\* the main goroutine and a unit that was running at that time
Concurrent(a, b) ==
    \/ a.who # 0 /\ b.who # 0 /\ a.who # b.who
    \/ a.who = 0 /\ b.who # 0 /\ b.who \in a.conc

\* a data race: two concurrent accesses of one location, one of them a write
Race(a, b) == a.loc = b.loc /\ "w" \in {a.kind, b.kind} /\ Concurrent(a, b)

\* the answers given so far to the probes of the target at index i
OwnReplies(i) == [p \in Phases |-> replies[p][i]]

\* success flag and detail of an outcome
Shown(p) == <<p.Success, p.Detail>>

\* the three outcomes runTests computes for one target, as a function of
\* that target, of the answers to its own probes and of the time a probe
\* takes
OwnPhases(t, r, e) ==
    LET dns == IF ParseIP(t.Host) THEN testDNSLiteral(t) ELSE testDNS(r["dns"], e)
        tcp == IF ~dns.Success THEN SkipDNS ELSE testTCP(r["tcp"], e)
        tls == IF ~dns.Success THEN SkipDNS
               ELSE IF ~tcp.Success THEN SkipTCP ELSE testTLS(r["tls"], e)
    IN  [DNS |-> dns, TCP |-> tcp, TLS |-> tls]

\* their success flags and details, which do not depend on that time
OwnOutcome(t, r) ==
    LET own == OwnPhases(t, r, 0)
    IN  [f \in PhaseFields |-> Shown(own[f])]

(***************************************************************************)
(* Properties.                                                             *)
(***************************************************************************)
\* C1: once runTests has returned, every target whose DNS outcome did not
\* succeed has skip outcomes for both TCP and TLS, and at no point of the
\* run is a TCP or TLS probe invoked for a target whose DNS has failed.
C1_DNSFailureSkipsTCPAndTLS ==
    /\ Returned =>
          \A i \in 1..N : ~results[i].DNS.Success =>
               /\ IsSkip(results[i].TCP)
               /\ IsSkip(results[i].TLS)
               /\ invoked["tcp"][i] = 0
               /\ invoked["tls"][i] = 0
    /\ \A i \in 1..N : (assigned["DNS"][i] > 0 /\ ~results[i].DNS.Success) =>
               invoked["tcp"][i] = 0 /\ invoked["tls"][i] = 0

\* a finished run in which a looked-up name did not resolve and both later
\* phases were recorded as skipped
C1_Witness ==
    /\ pc = "done"
    /\ \E i \in 1..N :
          /\ invoked["dns"][i] = 1
          /\ results[i].DNS.Detail = NXDOMAIN
          /\ results[i].TCP = SkipDNS
          /\ results[i].TLS = SkipDNS

\* C2: once runTests has returned, every target whose TCP outcome did not
\* succeed has a skip outcome for TLS, and its TLS probe was never invoked.
C2_TCPFailureSkipsTLS ==
    Returned =>
       \A i \in 1..N : ~results[i].TCP.Success =>
            IsSkip(results[i].TLS) /\ invoked["tls"][i] = 0

\* a finished run in which the TCP probe ran and failed
C2_Witness ==
    /\ pc = "done"
    /\ \E i \in 1..N :
          /\ results[i].DNS.Success
          /\ invoked["tcp"][i] = 1
          /\ IsFailure(results[i].TCP)
          /\ results[i].TLS = SkipTCP

\* C3: for every evaluated result, blocked is the negation of "all three
\* phases succeeded".
C3_BlockedIffSomePhaseNotSucceeded ==
    Evaluated =>
       \A i \in 1..N :
          results[i].Blocked =
             ~(results[i].DNS.Success /\ results[i].TCP.Success /\ results[i].TLS.Success)

\* an evaluated run with a target blocked by its TLS phase alone and a
\* target that is not blocked
C3_Witness ==
    /\ Evaluated
    /\ \E i, j \in 1..N :
          /\ results[i].TCP.Success /\ IsFailure(results[i].TLS) /\ results[i].Blocked
          /\ results[j].TLS.Success /\ ~results[j].Blocked

\* C4: for every evaluated result, an ALLOW target passed iff it is not
\* blocked and a DENY target passed iff it is blocked, whichever phase
\* blocked it.
C4_PassedMatchesExpectation ==
    Evaluated =>
       \A i \in 1..N :
          /\ ~targets[i].ExpectErr => (results[i].Passed = ~results[i].Blocked)
          /\ targets[i].ExpectErr => (results[i].Passed = results[i].Blocked)
          /\ (targets[i].ExpectErr /\
                (~results[i].DNS.Success \/ ~results[i].TCP.Success \/ ~results[i].TLS.Success))
                => results[i].Passed

\* an evaluated run with a DENY target that passed because its DNS failed
\* and a DENY target that passed because its TLS failed
C4_Witness ==
    /\ Evaluated
    /\ \E i, j \in 1..N :
          /\ targets[i].ExpectErr /\ ~results[i].DNS.Success /\ results[i].Passed
          /\ targets[j].ExpectErr /\ IsFailure(results[j].TLS) /\ results[j].Passed

\* C5 as stated: the process exits with status 0 iff every target's
\* passed flag is true.
C5_ExitZeroIffAllPassed ==
    pc = "done" =>
       (exitCode = 0 <=> \A i \in 1..Len(results) : results[i].Passed)

\* C5 amended: with at least one target configured, the process exits with
\* status 0 iff every target's passed flag is true; a blocked ALLOW target
\* or a fully reachable DENY target makes the status non-zero, and phase
\* failures of DENY targets alone do not.
C5_ExitZeroIffAllPassedNonEmpty ==
    (pc = "done" /\ N > 0) =>
       LET reachable(i) ==
               results[i].DNS.Success /\ results[i].TCP.Success /\ results[i].TLS.Success
       IN  /\ exitCode = 0 <=> \A i \in 1..N : results[i].Passed
           /\ (\E i \in 1..N : ~targets[i].ExpectErr /\ ~reachable(i)) => exitCode # 0
           /\ (\E i \in 1..N : targets[i].ExpectErr /\ reachable(i)) => exitCode # 0
           /\ (\A i \in 1..N : ~targets[i].ExpectErr => reachable(i))
                 /\ (\A i \in 1..N : targets[i].ExpectErr => ~reachable(i))
              => exitCode = 0

\* a run of a healthy ALLOW target and a DENY target blocked at TLS that
\* exits with status 0
C5_Witness ==
    /\ pc = "done"
    /\ exitCode = 0
    /\ \E i, j \in 1..N :
          /\ ~targets[i].ExpectErr /\ results[i].TLS.Success
          /\ targets[j].ExpectErr /\ results[j].TCP.Success /\ IsFailure(results[j].TLS)

\* C6: at most one DNS lookup is in flight at any time, and the lookups
\* run in input order: the DNS probe of a target starts only after the DNS
\* outcome of every earlier target has been stored.
C6_DNSSequentialInOrder ==
    /\ Cardinality(DNSInFlight) <= 1
    /\ \A i \in 1..N : invoked["dns"][i] > 0 =>
          \A j \in 1..(i - 1) :
             /\ assigned["DNS"][j] > 0
             /\ \A op \in DNSInFlight : op.idx # j

\* the lookup of the second target is in flight after the lookup of the
\* first target was sent and answered
C6_Witness ==
    /\ N = 2
    /\ ~ParseIP(targets[1].Host)
    /\ assigned["DNS"][1] = 1
    /\ Op("dns", 2, lookupHost(targets[2]), timeout) \in inflight

\* C7: no TCP or TLS probe of any target is started before the DNS outcome
\* of every target has been stored and while any lookup is in flight; and
\* the TLS probe of a target is started only after its TCP probe has
\* returned success.
C7_DNSPhaseBeforeParallelPhase ==
    /\ (\E i \in 1..N : invoked["tcp"][i] > 0 \/ invoked["tls"][i] > 0) =>
          /\ \A j \in 1..N : assigned["DNS"][j] > 0
          /\ DNSInFlight = {}
    /\ \A i \in 1..N : invoked["tls"][i] > 0 =>
          /\ assigned["TCP"][i] > 0
          /\ results[i].TCP.Success
          /\ Op("tcp", i, targets[i].Host, timeout) \notin inflight

\* the TLS probe of the first target is in flight and the last target
\* needed a lookup
C7_Witness ==
    /\ N = 2
    /\ invoked["dns"][2] = 1
    /\ ~ParseIP(targets[2].Host)
    /\ Op("tls", 1, targets[1].Host, timeout) \in inflight

\* C8: when runTests has returned, every launched unit has finished, no
\* network operation is in flight, and each of the DNS, TCP and TLS fields
\* of every result has been assigned and is exactly one of a success, a
\* failure or a skip.
C8_ReturnsOnlyWhenComplete ==
    Returned =>
       /\ \A g \in 1..N : gpc[g] \in {"none", "done"}
       /\ wg = 0
       /\ inflight = {}
       /\ Len(results) = N
       /\ \A i \in 1..N : \A f \in PhaseFields :
             /\ assigned[f][i] >= 1
             /\ Cardinality({ k \in {"success", "failure", "skip"} :
                                \/ k = "success" /\ results[i][f].Success
                                \/ k = "failure" /\ IsFailure(results[i][f])
                                \/ k = "skip" /\ IsSkip(results[i][f]) }) = 1

\* runTests has just returned after two launched units finished
C8_Witness ==
    /\ pc = "eval"
    /\ N = 2
    /\ \A g \in 1..N : gpc[g] = "done"

\* C9: the results returned by runTests have one entry per target, and the
\* entry at each index carries the target of that index unchanged.
C9_ResultsIndexAligned ==
    Returned =>
       /\ Len(results) = Len(targets)
       /\ \A i \in 1..N : results[i].Target = targets[i]

\* runTests has returned for two different targets whose units both ran
C9_Witness ==
    /\ pc = "eval"
    /\ N = 2
    /\ targets[1] # targets[2]
    /\ invoked["tcp"][1] = 1
    /\ invoked["tls"][2] = 1

\* C10: the unit launched for index g accesses only results[g] (writing
\* only its TCP and TLS fields) and targets[g]; while units are running the
\* main goroutine writes only the TCP and TLS fields of DNS-failed indices,
\* for which no unit exists, and reads only DNS fields that were written
\* before any unit was launched; no two concurrent accesses of one location
\* include a write.
C10_NoDataRace ==
    /\ \A a \in accesses : a.who # 0 =>
          /\ a.loc[2] = a.who
          /\ a.kind = "w" => (a.loc[1] = "results" /\ a.loc[3] \in {"TCP", "TLS"})
    /\ \A a \in accesses : (a.who = 0 /\ a.conc # {}) =>
          /\ a.loc[1] = "results"
          /\ a.kind = "w" =>
                /\ a.loc[3] \in {"TCP", "TLS"}
                /\ ~results[a.loc[2]].DNS.Success
                /\ gpc[a.loc[2]] = "none"
          /\ a.kind = "r" =>
                /\ a.loc[3] = "DNS"
                /\ \A b \in accesses : (b.loc = a.loc /\ b.kind = "w") =>
                      (b.who = 0 /\ b.conc = {})
    /\ LET units == { a \in accesses : a.who # 0 }
           during == { a \in accesses : a.who = 0 /\ a.conc # {} }
       IN  \A a \in units \cup during : \A b \in units : ~Race(a, b) /\ ~Race(b, a)

\* the main goroutine has recorded the skips of a DNS-failed target while
\* the unit of the first target was running and had stored its TCP outcome
C10_Witness ==
    /\ \E a \in accesses : a.who = 0 /\ a.kind = "w" /\ 1 \in a.conc
    /\ \E b \in accesses : b.who = 1 /\ b.kind = "w"
    /\ gpc[1] \in {"tcp_check", "tls_wait"}

\* C11: targets are isolated.  When runTests has returned there is a
\* result for every target, all three of its outcomes have been assigned,
\* and the success flag and the detail of each are a function of that
\* target and of the answers given to its own probes only, so two runs over
\* one target list that differ in what the network answered for other
\* targets return the same flags and details for it.
C11_TargetsIsolated ==
    Returned =>
       /\ Len(results) = N
       /\ \A i \in 1..N :
             LET own == OwnOutcome(targets[i], OwnReplies(i))
             IN  \A f \in PhaseFields :
                    assigned[f][i] >= 1 /\ Shown(results[i][f]) = own[f]

\* a finished run in which the lookup or the TCP probe of a target failed
\* and a later target was probed through all three phases with success
C11_Witness ==
    /\ pc = "done"
    /\ N >= 2
    /\ \E i, j \in 1..N :
          /\ i < j
          /\ (IsFailure(results[i].DNS) \/ IsFailure(results[i].TCP))
          /\ invoked["tcp"][j] = 1
          /\ invoked["tls"][j] = 1
          /\ results[j].TLS.Success

\* C12: there is no retry and every outcome is written once.  Each of the
\* DNS, TCP and TLS probes is invoked at most once per target; each phase
\* outcome is assigned at most once, and exactly once by the time runTests
\* has returned; and no step changes an outcome that has been assigned.
C12_NoRetryWrittenOnce ==
    /\ [](/\ \A p \in Phases : \A i \in 1..N : invoked[p][i] <= 1
          /\ \A f \in PhaseFields : \A i \in 1..N : assigned[f][i] <= 1
          /\ Returned => \A f \in PhaseFields : \A i \in 1..N : assigned[f][i] = 1)
    /\ [][\A i \in 1..Len(results) : \A f \in PhaseFields :
             assigned[f][i] >= 1 => results'[i][f] = results[i][f]]_vars

\* a finished run in which a lookup failed and a TLS handshake failed, each
\* after a single call
C12_Witness ==
    /\ pc = "done"
    /\ \E i, j \in 1..N :
          /\ IsFailure(results[i].DNS) /\ invoked["dns"][i] = 1
          /\ IsFailure(results[j].TLS) /\ invoked["tls"][j] = 1

\* C13: in a run with at least one target exactly one warm-up lookup is
\* sent, with the configured timeout; no DNS probe of a target is started
\* before it has returned; and whatever it answered, the finished run has
\* for every target the outcomes that follow from the answers to that
\* target's own probes, the flags that follow from these outcomes, and the
\* exit status that follows from the flags.
C13_WarmupOnceAndDiscarded ==
    /\ warm.sent <= 1
    /\ warm.answered <= warm.sent
    /\ (N > 0 /\ pc # "config") => warm.sent = 1
    /\ N = 0 => warm.sent = 0
    /\ \A op \in inflight : op.idx = 0 =>
          op = Op("dns", 0, WarmupName, timeout) /\ warm.answered = 0
    /\ (\E i \in 1..N : invoked["dns"][i] > 0) =>
          /\ warm.answered = 1
          /\ \A op \in inflight : op.idx # 0
    /\ (pc = "done" /\ N > 0) =>
          /\ Len(results) = N
          /\ \A i \in 1..N :
                LET own == OwnPhases(targets[i], OwnReplies(i), latency)
                    blocked == ~(own.DNS.Success /\ own.TCP.Success /\ own.TLS.Success)
                IN  /\ \A f \in PhaseFields : assigned[f][i] = 1 /\ results[i][f] = own[f]
                    /\ results[i].Blocked = blocked
                    /\ results[i].Passed = (targets[i].ExpectErr = blocked)
          /\ exitCode = IF \A i \in 1..N : results[i].Passed THEN 0 ELSE 1

\* a finished run with TIMEOUT set, whose warm-up lookup failed and whose
\* targets were all probed through the three phases with success, exit
\* status 0
C13_Witness ==
    /\ pc = "done"
    /\ timeout # defaultTimeout
    /\ warm.answered = 1
    /\ ~warm.ok
    /\ N = 2
    /\ \A i \in 1..N : invoked["dns"][i] = 1 /\ results[i].TLS.Success
    /\ exitCode = 0

\* C14: when runTests has returned, for every target exactly one of "the DNS
\* outcome did not succeed" and "the TCP probe was executed" holds, and
\* exactly one of "the TCP outcome did not succeed" and "the TLS probe was
\* executed" holds; a skipped TCP phase counts as not succeeded, so a
\* target whose DNS failed has neither probe executed.
C14_ExactlyOneOfFailedOrExecuted ==
    Returned =>
       \A i \in 1..N :
          /\ (~results[i].DNS.Success) # (invoked["tcp"][i] = 1)
          /\ (~results[i].TCP.Success) # (invoked["tls"][i] = 1)
          /\ invoked["tcp"][i] \in {0, 1}
          /\ invoked["tls"][i] \in {0, 1}
          /\ ~results[i].DNS.Success =>
                IsSkip(results[i].TCP) /\ invoked["tcp"][i] = 0 /\ invoked["tls"][i] = 0

\* runTests has just returned with a target whose lookup failed and whose
\* TCP was skipped, and a target whose executed TCP probe failed
C14_Witness ==
    /\ pc = "eval"
    /\ \E i, j \in 1..N :
          /\ IsFailure(results[i].DNS) /\ results[i].TCP = SkipDNS
          /\ invoked["tcp"][j] = 1 /\ IsFailure(results[j].TCP) /\ invoked["tls"][j] = 0

\* C15: when runTests has returned, the outcome of every phase whose probe
\* was not executed has Success false, zero elapsed time and a skip literal
\* as detail, and so has every outcome that carries a skip literal; the TCP
\* detail is "skipped (DNS failed)" exactly when DNS did not succeed; the
\* TLS detail is "skipped (DNS failed)" exactly when DNS did not succeed,
\* and "skipped (TCP failed)" exactly when DNS succeeded and the executed
\* TCP probe failed.
C15_SkipOutcomes ==
    Returned =>
       \A i \in 1..N :
          LET r == results[i]
              literals == {SkippedDNSFailed, SkippedTCPFailed}
              skipped(p) == ~p.Success /\ p.Duration = 0 /\ p.Detail \in literals
          IN  /\ invoked["tcp"][i] = 0 => skipped(r.TCP)
              /\ invoked["tls"][i] = 0 => skipped(r.TLS)
              /\ \A f \in PhaseFields : r[f].Detail \in literals =>
                    /\ skipped(r[f])
                    /\ f # "DNS"
                    /\ invoked[IF f = "TCP" THEN "tcp" ELSE "tls"][i] = 0
              /\ (r.TCP.Detail = SkippedDNSFailed) <=> ~r.DNS.Success
              /\ r.TCP.Detail # SkippedTCPFailed
              /\ (r.TLS.Detail = SkippedDNSFailed) <=> ~r.DNS.Success
              /\ (r.TLS.Detail = SkippedTCPFailed) <=>
                    (r.DNS.Success /\ invoked["tcp"][i] = 1 /\ ~r.TCP.Success)

\* a returned run in which probes take time: one target's lookup failed
\* and both later phases were skipped with zero elapsed time, another
\* target's TCP probe failed and its TLS was skipped
C15_Witness ==
    /\ pc = "exit"
    /\ latency > 0
    /\ \E i, j \in 1..N :
          /\ ~results[i].DNS.Success /\ results[i].DNS.Duration > 0
          /\ results[i].TCP.Detail = SkippedDNSFailed /\ results[i].TCP.Duration = 0
          /\ results[i].TLS.Detail = SkippedDNSFailed
          /\ results[j].DNS.Success
          /\ ~results[j].TCP.Success /\ results[j].TCP.Duration > 0
          /\ results[j].TLS.Detail = SkippedTCPFailed /\ results[j].TLS.Duration = 0

\* C16: for a target whose host is a literal address no lookup is ever in
\* flight and no answer is ever taken from the resolver; once its DNS
\* outcome is assigned it is a success with zero elapsed time and the
\* detail "<host> (literal)"; when runTests has returned its TCP probe has
\* been executed; and if it is blocked, TCP or TLS did not succeed.
C16_LiteralAddressSkipsLookup ==
    \A i \in 1..N :
       LET asLiteral ==
              /\ \A op \in inflight : op.phase = "dns" => op.idx # i
              /\ replies["dns"][i] = NoReply
              /\ assigned["DNS"][i] >= 1 =>
                    /\ results[i].DNS.Success
                    /\ results[i].DNS.Duration = 0
                    /\ results[i].DNS.Detail = targets[i].Host \o LiteralSuffix
              /\ Returned =>
                    /\ results[i].DNS.Success
                    /\ invoked["tcp"][i] = 1
                    /\ ~IsSkip(results[i].TCP)
              /\ (Evaluated /\ results[i].Blocked) =>
                    (~results[i].TCP.Success \/ ~results[i].TLS.Success)
       IN  asLiteral \/ ~ParseIP(targets[i].Host)

\* a finished run in which probes take time, with a literal-address target
\* whose DNS outcome took no time and which is blocked at TLS
C16_Witness ==
    /\ pc = "done"
    /\ latency > 0
    /\ \E i \in 1..N :
          /\ ParseIP(targets[i].Host)
          /\ results[i].DNS.Success /\ results[i].DNS.Duration = 0
          /\ results[i].TCP.Success /\ results[i].TCP.Duration > 0
          /\ IsFailure(results[i].TLS)
          /\ results[i].Blocked

C18_ClassifierFallback ==
    fpc = "out" =>
       LET has(x) == Contains(fin, x)
           matched == \/ has(NoSuchHost) \/ has(IOTimeout) \/ has(DeadlineExceeded)
                      \/ has(ConnectionRefused) \/ has(ConnectionReset)
                      \/ has(Certificate) \/ has(HandshakeFailure)
           seps == { k \in 1..(Len(fin) - 1) : fin[k] = ":" /\ fin[k + 1] = " " }
           categories == {NXDOMAIN, TimeoutCat, ConnectionRefused, ConnectionReset,
                          CertUnknownAuthority, CertExpired, CertError, TLSHandshakeFailure}
       IN  /\ (~matched /\ seps = {}) => fout = fin
           /\ (~matched /\ seps # {}) =>
                 \E k \in seps :
                    /\ \A j \in seps : j <= k
                    /\ fout = [n \in 1..(Len(fin) - k - 1) |-> fin[k + 1 + n]]
           /\ matched => fout \in categories

\* a message with two separators and no rule word was cut after the second
\* separator
C18_Witness ==
    /\ fpc = "out"
    /\ fin = FragDial \o FragUnreachable
    /\ fout = SubSeq(FragUnreachable, 10, Len(FragUnreachable))

\* C19: parseTarget yields a port in 1..65535 for every entry.  When what
\* is left after the scheme and the path are cut parses as host:port and
\* the port text is a decimal number in 1..65535, that number is the port;
\* when the port text is empty, not a number, not positive or above 65535,
\* or there is no port text, the port is the one inferred from the scheme.
C19_PortAlwaysValid ==
    fpc = "out" =>
       LET st == stripTarget(Raw(fin))
           hp == SplitHostPort(st.rest)
           p == hp.port
           signed == p # <<>> /\ p[1] \in {"+", "-"}
           digits == IF signed THEN Tail(p) ELSE p
           numeral == digits # <<>> /\ \A k \in 1..Len(digits) : digits[k] \in Digits
           value == IF signed /\ p[1] = "-" THEN 0 - DecValSat(digits) ELSE DecValSat(digits)
           valid == ~hp.err /\ numeral /\ value \in 1..maxPort
       IN  /\ fout.Port \in 1..maxPort
           /\ st.inferredPort \in {httpPort, httpsPort, defaultPort}
           /\ valid => fout.Port = value
           /\ ~valid => fout.Port = st.inferredPort

\* the entry "http://a.io:999999" was given the port of its scheme
C19_Witness ==
    /\ fpc = "out"
    /\ Raw(fin) = SchemeHTTP \o SchemeSep \o HostName \o <<":", "9", "9", "9", "9", "9", "9">>
    /\ fout.Host = HostName
    /\ fout.Port = httpPort

\* C20 as stated: parseTarget takes the default port from the scheme
\* written in front of the entry, whatever its case (http gives 80; https,
\* tcp, tls, any other or no scheme give 443); the host it yields is text
\* of the entry's host and port part, never of its scheme or its path; and
\* a port written after a plain host wins over the inferred port when it
\* is a number in 1..65535.
C20_SchemeStrippedPortInferred ==
    fpc = "out" =>
       LET word == IF fin.scheme = <<>> THEN <<>>
                   ELSE SubSeq(fin.scheme, 1, Index(fin.scheme, SchemeSep))
           inferred == IF ToLower(word) = SchemeHTTP THEN httpPort ELSE httpsPort
           p == IF fin.port = <<>> THEN <<>> ELSE Tail(fin.port)
           number == p # <<>> /\ \A k \in 1..Len(p) : p[k] \in Digits
           explicit == number /\ DecValSat(p) \in 1..maxPort
           plain == \A k \in 1..Len(fin.host) : fin.host[k] \notin {":", "[", "]"}
       IN  /\ ~Contains(fout.Host, Slash)
           /\ Contains(fin.host \o fin.port, fout.Host)
           /\ fin.port = <<>> => fout.Port = inferred
           /\ (plain /\ explicit) => (fout.Host = fin.host /\ fout.Port = DecValSat(p))

\* the entry "tcp://1.1.1.1:53" was parsed as host 1.1.1.1, port 53
C20_Witness ==
    /\ fpc = "out"
    /\ Raw(fin) = SchemeTCP \o SchemeSep \o HostIP \o <<":", "5", "3">>
    /\ fout.Host = HostIP
    /\ fout.Port = 53

\* the string host ":" port of a target
HostPort(t) == t.Host \o Colon \o Itoa(t.Port)

\* a host text without colon and without bracket
PlainHost(h) == \A k \in 1..Len(h) : h[k] \notin {":", "[", "]"}

\* the entry is a plain host, a colon and the decimal text of a port in
\* 1..65535, with no scheme and no path
CanonicalEntry(e) ==
    /\ e.scheme = <<>>
    /\ e.path = <<>>
    /\ PlainHost(e.host)
    /\ e.port # <<>>
    /\ ~Atoi(Tail(e.port)).err
    /\ Atoi(Tail(e.port)).val \in 1..maxPort
    /\ Itoa(Atoi(Tail(e.port)).val) = Tail(e.port)

\* parseTarget applied to "h:p" gives host h and port p
ParsesToItself(e) ==
    /\ fout.Host = e.host
    /\ fout.Port = Atoi(Tail(e.port)).val

\* parseTarget applied to host ":" port of t gives the host and port of t
RoundTrip(t) ==
    LET u == parseTarget(HostPort(t))
    IN  u.Host = t.Host /\ u.Port = t.Port

\* C21 as stated: parseTarget applied to "h:p" with p in 1..65535 yields
\* host h and port p, and for every target t that parseTarget yields,
\* parseTarget applied to t.host ":" t.port yields the host and port of t.
C21_RoundTripEveryTarget ==
    fpc = "out" =>
       /\ CanonicalEntry(fin) => ParsesToItself(fin)
       /\ RoundTrip(fout)

\* C21: parseTarget applied to "h:p", h without colon or bracket and p in
\* 1..65535, yields host h and port p, and for every target t that
\* parseTarget yields whose host has no colon and no bracket, parseTarget
\* applied to t.host ":" t.port yields the host and port of t.
C21_RoundTripPlainHost ==
    fpc = "out" =>
       /\ CanonicalEntry(fin) => ParsesToItself(fin)
       /\ PlainHost(fout.Host) => RoundTrip(fout)

\* the entry "http://a.io/p" was parsed as host a.io, port 80, and
\* "a.io:80" parses to the same; "a.io:65535" was parsed to itself
C21_Witness ==
    /\ fpc = "out"
    /\ \/ /\ Raw(fin) = SchemeHTTP \o SchemeSep \o HostName \o <<"/", "p">>
          /\ fout.Host = HostName
          /\ fout.Port = httpPort
          /\ HostPort(fout) = HostName \o <<":", "8", "0">>
          /\ RoundTrip(fout)
       \/ /\ CanonicalEntry(fin)
          /\ fin.port = <<":", "6", "5", "5", "3", "5">>
          /\ ParsesToItself(fin)

\* the entries written in a list variable: the pieces between the commas
\* without the blanks around them, those that are not empty
Listed(raw) ==
    LET pieces == Split(raw, ",")
    IN  SelectSeq([k \in 1..Len(pieces) |-> TrimSpace(pieces[k])], LAMBDA e : e # <<>>)

\* the targets of a list of entries, all with one expectation
Expecting(es, deny) == [k \in 1..Len(es) |-> [parseTarget(es[k]) EXCEPT !.ExpectErr = deny]]

\* C22 as stated: every entry of ALLOW_TARGETS is an ALLOW target and
\* every entry of DENY_TARGETS a DENY target, allow entries first, each
\* group in listed order; TARGETS is used only if neither ALLOW_TARGETS nor
\* DENY_TARGETS is set, and then every entry of it is an ALLOW target.
C22_ExpectationFromGroup ==
    fpc = "out" =>
       fout = IF fin.allow = <<>> /\ fin.deny = <<>>
              THEN Expecting(Listed(fin.legacy), FALSE)
              ELSE Expecting(Listed(fin.allow), FALSE) \o Expecting(Listed(fin.deny), TRUE)

\* ALLOW_TARGETS with two entries and DENY_TARGETS with one gave two ALLOW
\* targets followed by one DENY target, TARGETS being set as well
C22_Witness ==
    /\ fpc = "out"
    /\ fin.legacy # <<>>
    /\ Len(Listed(fin.allow)) = 2
    /\ Len(Listed(fin.deny)) = 1
    /\ Len(fout) = 3
    /\ ~fout[1].ExpectErr /\ ~fout[2].ExpectErr /\ fout[3].ExpectErr
    /\ fout[1].Host # fout[3].Host

\* C23: with an empty target list the process exits with a non-zero
\* status and neither the warm-up lookup nor any probe is ever issued;
\* with a non-empty list no probe failure ends the run: main always gets
\* to the evaluation loop, with one result per target, and only then exits.
C23_OnlyNoTargetsAborts ==
    /\ [](N = 0 => /\ warm.sent = 0
                   /\ inflight = {}
                   /\ pc \in {"config", "done"}
                   /\ (pc = "done" => exitCode # 0))
    /\ (N = 0) ~> (pc = "done" /\ exitCode # 0)
    /\ [](N > 0 /\ pc = "done" => Len(results) = N)
    /\ (N > 0) ~> (Evaluated /\ Len(results) = N)

\* a run of two targets ended after the lookup of the first and the
\* handshake of the second had failed
C23_Witness ==
    /\ N = 2
    /\ pc = "done"
    /\ IsFailure(results[1].DNS)
    /\ IsFailure(results[2].TLS)
    /\ results[1].Blocked /\ results[2].Blocked

\* units launched that have not signalled completion
Running == { g \in 1..N : gpc[g] \notin {"none", "done"} }

\* C24: when every probe returns, runTests returns for every target list.
\* The WaitGroup counter always equals the number of units launched and
\* not yet done (it is raised before the launch and lowered once on every
\* path of a unit), runTests has not returned while a unit is running,
\* and once the DNS loop has started runTests does return.
C24_RunTestsReturns ==
    /\ [](wg = Cardinality(Running))
    /\ [](Returned => Running = {})
    /\ (pc = "dns") ~> (pc = "eval")

\* runTests returned after one unit left early on a TCP failure and
\* another ran its handshake to success
C24_Witness ==
    /\ N = 2
    /\ pc = "eval"
    /\ wg = 0
    /\ gpc[1] = "done" /\ IsFailure(results[1].TCP) /\ results[1].TLS = SkipTCP
    /\ gpc[2] = "done" /\ results[2].TLS.Success

\* the phase outcomes of executed probes: not a skip, and for DNS not the
\* answer for a literal address
Executed(i) ==
    { results[i][f] : f \in { f \in PhaseFields :
          /\ assigned[f][i] >= 1
          /\ ~IsSkip(results[i][f])
          /\ ~(f = "DNS" /\ IsLiteral(targets[i])) } }

\* C25 as stated: every DNS, TCP and TLS probe of every target is given
\* the full configured timeout, whatever time earlier phases or other
\* targets took, and the elapsed time reported for an executed phase
\* never exceeds that timeout.
C25_FullTimeoutElapsedBounded ==
    /\ \A op \in inflight : op.timeout = timeout
    /\ \A i \in 1..Len(results) : \A p \in Executed(i) : p.Duration <= timeout

\* C25: every DNS, TCP and TLS probe of every target is given the full
\* configured timeout, whatever time earlier phases or other targets took,
\* and the elapsed time reported for an executed phase is the time
\* measured around the call, which is not cut down to the timeout.
C25_FullTimeoutElapsedMeasured ==
    /\ \A op \in inflight : op.timeout = timeout
    /\ \A i \in 1..Len(results) : \A p \in Executed(i) : p.Duration = latency

\* with TIMEOUT=2 the handshake of a target is in flight with a deadline
\* of 2 after its lookup and its dial each took 3
C25_Witness ==
    /\ timeout = 2
    /\ timeout # defaultTimeout
    /\ \E op \in inflight :
          /\ op.phase = "tls"
          /\ op.timeout = timeout
          /\ results[op.idx].DNS.Duration > timeout
          /\ results[op.idx].TCP.Duration > timeout

\* the categories of the classifier and the substrings that lead to one
Categories ==
    {NXDOMAIN, TimeoutCat, ConnectionRefused, ConnectionReset,
     CertUnknownAuthority, CertExpired, CertError, TLSHandshakeFailure}

RuleSubstrings ==
    {NoSuchHost, IOTimeout, DeadlineExceeded, ConnectionRefused, ConnectionReset,
     Certificate, HandshakeFailure}

\* the message as it is, or what follows its last ": "
TrailingSegment(msg) ==
    IF Contains(msg, ColonSpace)
    THEN SubSeq(msg, LastIndex(msg, ColonSpace) + 3, Len(msg))
    ELSE msg

\* C26 as stated: the rules are matched against the message in lower
\* case, so a message and its lower-case form get the same category.
C26_CaseInsensitive ==
    fpc = "out" =>
       LET low == simplifyError(ToLower(fin))
       IN  (fout \in Categories \/ low \in Categories) => fout = low

\* C26: the rules are matched against the message as it is, letter case
\* included: a message is given a category exactly when it contains one of
\* the rule substrings as written, in lower case; a message that has one
\* only with other letter case yields its trailing segment instead.
C26_CaseSensitive ==
    fpc = "out" =>
       /\ (\E r \in RuleSubstrings : Contains(fin, r)) => fout \in Categories
       /\ (\A r \in RuleSubstrings : ~Contains(fin, r)) => fout = TrailingSegment(fin)

\* "dial tcp: Connection refused" was answered with "Connection refused"
\* taken from the message, where its lower-case form is in a category
C26_Witness ==
    /\ fpc = "out"
    /\ fin = FragDial \o <<"C", "o", "n", "n", "e", "c", "t", "i", "o", "n", " ", "r", "e", "f", "u", "s", "e", "d">>
    /\ fin # ToLower(fin)
    /\ fout = TrailingSegment(fin)
    /\ fout \notin Categories
    /\ simplifyError(ToLower(fin)) = ConnectionRefused

\* err.Error() of the errors net, crypto/tls and crypto/x509 return: any
\* number of wrappers, each ending in ": ", around a text that is not empty
Producible(msg) == msg # <<>> /\ ~HasSuffix(msg, ColonSpace)

\* C27: a skipped phase can be told from a failed one.  For every message
\* a probe can return and every elapsed time, the outcome of the failed
\* probe is not a skip outcome and formatPhaseCell shows it as a failure
\* with its detail, also when the detail is the trailing segment of the
\* message, while both skip outcomes are shown as a dash.
C27_SkipDistinctFromFailure ==
    fpc = "out" /\ Producible(fin) =>
       /\ formatPhaseCell(SkipDNS).mark = "dash"
       /\ formatPhaseCell(SkipTCP).mark = "dash"
       /\ \A e \in ElapsedVals :
             LET p == PhaseFailure(fin, e)
             IN  /\ p.Detail = fout
                 /\ p \notin {SkipDNS, SkipTCP}
                 /\ ~IsSkip(p)
                 /\ formatPhaseCell(p) = [mark |-> "fail", text |-> fout]

\* "dial tcp: connect: network is unreachable" matched no rule; its
\* trailing segment is the detail and the cell shows it as a failure
C27_Witness ==
    /\ fpc = "out"
    /\ fin = FragDial \o FragUnreachable
    /\ Producible(fin)
    /\ fout \notin Categories
    /\ fout = TrailingSegment(fin)
    /\ fout # fin
    /\ formatPhaseCell(PhaseFailure(fin, 0)).mark = "fail"

\* operations in flight that look a name up: the lookups of testDNS and
\* of the warm-up, and every dial or handshake that was handed a host name
\* instead of an address, since net.Dial resolves the name before it connects
ResolvesName(op) == op.phase = "dns" \/ ~ParseIP(op.q)

\* C28 as stated: the TCP and TLS probes issue no name-resolution query,
\* so at most one name-resolution query of the process is in flight at
\* any time of a run.
C28_NoResolutionInParallelPhase ==
    /\ \A op \in inflight : op.phase \in {"tcp", "tls"} => ~ResolvesName(op)
    /\ Cardinality({ op \in inflight : ResolvesName(op) }) <= 1

\* the dials of two targets are in flight together, each handed the host
\* name of its target after the lookup of that name had succeeded
C28_Witness ==
    \E a, b \in inflight :
       /\ a.idx # b.idx
       /\ a.phase = "tcp" /\ b.phase = "tcp"
       /\ a.q = targets[a.idx].Host /\ b.q = targets[b.idx].Host
       /\ ~ParseIP(a.q) /\ ~ParseIP(b.q)
       /\ results[a.idx].DNS.Success /\ results[b.idx].DNS.Success
       /\ DNSInFlight = {}

\* C29: in every result runTests returns, TLS succeeded only if TCP
\* succeeded and TCP succeeded only if DNS succeeded; so after evaluation
\* blocked is the same as TLS not succeeded, and a target is reported
\* reachable only if testDNS, testTCP and testTLS were all called for it
\* and all succeeded.
C29_SuccessChain ==
    /\ Returned =>
          \A i \in 1..N :
             /\ results[i].TLS.Success => results[i].TCP.Success
             /\ results[i].TCP.Success => results[i].DNS.Success
    /\ Evaluated =>
          \A i \in 1..N :
             /\ results[i].Blocked <=> ~results[i].TLS.Success
             /\ ~results[i].Blocked =>
                   \A p \in Phases :
                      /\ invoked[p][i] >= 1
                      /\ replies[p][i].ok \/ (p = "dns" /\ IsLiteral(targets[i]))
             /\ ~results[i].Blocked =>
                   results[i].DNS.Success /\ results[i].TCP.Success /\ results[i].TLS.Success

\* after evaluation one target is reachable, all three probes called and
\* answered with success, and another is blocked with TCP failed after a
\* successful lookup
C29_Witness ==
    /\ Evaluated
    /\ N = 2
    /\ ~results[1].Blocked
    /\ \A p \in Phases : invoked[p][1] = 1 /\ replies[p][1].ok
    /\ results[2].Blocked
    /\ results[2].DNS.Success /\ ~results[2].TCP.Success /\ ~results[2].TLS.Success

\* the evaluated result of the target at index i as a function of the
\* target list and of the answers to its probes, with no reference to the
\* order in which the steps of the run were taken
Verdict(i) ==
    LET own == OwnPhases(targets[i], OwnReplies(i), 0)
    IN  Evaluate([Target |-> targets[i], DNS |-> own.DNS, TCP |-> own.TCP,
                  TLS |-> own.TLS, Passed |-> FALSE, Blocked |-> FALSE])

\* C30: the verdicts do not depend on the schedule.  Every probe is
\* called at most once, so its answer is one value; when the run is over,
\* every outcome has been written once, and the success flags, details,
\* blocked and passed flags of every target and the exit status are the
\* values Verdict computes from the target list and the answers alone,
\* whatever the interleaving of the units and the main goroutine was.
C30_VerdictsScheduleIndependent ==
    /\ \A p \in Phases : \A i \in 1..N : invoked[p][i] <= 1
    /\ (pc = "done" /\ N > 0) =>
          /\ \A i \in 1..N :
                /\ \A f \in PhaseFields :
                      assigned[f][i] = 1 /\ Shown(results[i][f]) = Shown(Verdict(i)[f])
                /\ results[i].Blocked = Verdict(i).Blocked
                /\ results[i].Passed = Verdict(i).Passed
          /\ exitCode = ExitStatus([i \in 1..N |-> Verdict(i)])

\* a finished run of two targets: the main goroutine recorded the skips of
\* the second while the unit of the first was not yet joined, the first
\* went through its handshake, and the verdicts are those of the answers
C30_Witness ==
    /\ pc = "done"
    /\ N = 2
    /\ results[1].TLS.Success
    /\ results[2].TCP = SkipDNS
    /\ [who |-> 0, loc |-> <<"results", 2, "TCP">>, kind |-> "w", conc |-> {1}] \in accesses
    /\ targets[1].ExpectErr /\ targets[2].ExpectErr
    /\ ~results[1].Passed /\ results[2].Passed
    /\ exitCode = 1

=============================================================================
